---- MODULE Spec2Model ----
(***************************************************************************)
(* A model of backend/extract.py: the per-object extraction loop           *)
(* (extract_apk), the name sanitiser and the name registry, the five       *)
(* exporters, build_stats and the __main__ block that writes the manifest. *)
(*                                                                         *)
(* Python strings are sequences of one-character strings, so that          *)
(* safe_name, the "_<n>" suffix and the path join are computed character   *)
(* by character.  A file is modelled by its byte length.  AssetEntry keeps *)
(* the fields the properties read; "emoji" and the human readable "size"   *)
(* are left out.  The source (UnityPy) and the file system are outside the *)
(* program: what they return or raise for an object is chosen from the     *)
(* sets NameRuns, TypeRuns and StatRuns, one per specification.            *)
(***************************************************************************)
EXTENDS Integers, Sequences, FiniteSets, TLC

VARIABLES
    pc,           \* position in __main__ / extract_apk
    manifest_path,\* sys.argv[3]
    assets,       \* extract_apk: the result list
    seen_names,   \* extract_apk: base name -> collision counter
    fs,           \* files under the output directory: absolute path -> byte length
    visited,      \* extract_apk: how many objects the loop has taken
    last,         \* history: the terminal state of the object visited last
    resolved,     \* history: the name resolutions done, in call order
    result,       \* __main__: the manifest record being built
    manifests,    \* the manifest records written to manifest_path
    exit_code     \* the process exit code, -1 while running

vars == <<pc, manifest_path, assets, seen_names, fs, visited, last, resolved,
          result, manifests, exit_code>>

(***************************************************************************)
(* Bounds                                                                  *)
(***************************************************************************)
\* objects the source yields in one run, at most
MaxObjects == 3
\* objects of a run of the all-types specification, at most
MaxTypedObjects == 2
\* objects of a run of the statistics specification, at most
MaxStatObjects == 3

(***************************************************************************)
(* Characters and strings                                                  *)
(***************************************************************************)
None == <<"None">>      \* Python's None where a string may stand

Digits == {"0", "1", "2", "3", "4", "5", "6", "7", "8", "9"}

Letters ==
    {"A", "B", "C", "D", "E", "F", "G", "H", "I", "J", "K", "L", "M",
     "N", "O", "P", "Q", "R", "S", "T", "U", "V", "W", "X", "Y", "Z",
     "a", "b", "c", "d", "e", "f", "g", "h", "i", "j", "k", "l", "m",
     "n", "o", "p", "q", "r", "s", "t", "u", "v", "w", "x", "y", "z"}

\* str.isalnum() of one character
IsAlnum(c) == c \in Letters \cup Digits

\* the characters safe_name keeps: c.isalnum() or c in "._- "
Allowed(c) == IsAlnum(c) \/ c \in {".", "_", "-", " "}

\* the characters str.strip() removes
Whitespace == {" ", "\t", "\n"}

RECURSIVE LStrip(_)
LStrip(s) ==
    IF s # <<>> /\ Head(s) \in Whitespace THEN LStrip(Tail(s)) ELSE s

RECURSIVE RStrip(_)
RStrip(s) ==
    IF s # <<>> /\ s[Len(s)] \in Whitespace
    THEN RStrip(SubSeq(s, 1, Len(s) - 1))
    ELSE s

Strip(s) == RStrip(LStrip(s))

\* str(n) for n >= 0
RECURSIVE IntStr(_)
IntStr(n) ==
    LET d == <<"0", "1", "2", "3", "4", "5", "6", "7", "8", "9">>[(n % 10) + 1]
    IN  IF n < 10 THEN <<d>> ELSE IntStr(n \div 10) \o <<d>>

(***************************************************************************)
(* TYPE_META                                                               *)
(***************************************************************************)
T_Texture2D     == <<"T","e","x","t","u","r","e","2","D">>
T_Sprite        == <<"S","p","r","i","t","e">>
T_AudioClip     == <<"A","u","d","i","o","C","l","i","p">>
T_Mesh          == <<"M","e","s","h">>
T_TextAsset     == <<"T","e","x","t","A","s","s","e","t">>
T_MonoBehaviour == <<"M","o","n","o","B","e","h","a","v","i","o","u","r">>
T_Font          == <<"F","o","n","t">>
T_Shader        == <<"S","h","a","d","e","r">>
T_Material      == <<"M","a","t","e","r","i","a","l">>
T_AnimationClip == <<"A","n","i","m","a","t","i","o","n","C","l","i","p">>
T_GameObject    == <<"G","a","m","e","O","b","j","e","c","t">>
\* a type tag TYPE_META does not know
T_Camera        == <<"C","a","m","e","r","a">>

Meta(t, e) == [type |-> t, ext |-> e]

TYPE_META ==
    (T_Texture2D     :> Meta(<<"t","e","x","t","u","r","e">>, <<"p","n","g">>)) @@
    (T_Sprite        :> Meta(<<"t","e","x","t","u","r","e">>, <<"p","n","g">>)) @@
    (T_AudioClip     :> Meta(<<"a","u","d","i","o">>, <<"w","a","v">>)) @@
    (T_Mesh          :> Meta(<<"m","e","s","h">>, <<"o","b","j">>)) @@
    (T_TextAsset     :> Meta(<<"t","e","x","t">>, <<"t","x","t">>)) @@
    (T_MonoBehaviour :> Meta(<<"s","c","r","i","p","t">>, <<"j","s","o","n">>)) @@
    (T_Font          :> Meta(<<"f","o","n","t">>, <<"t","t","f">>)) @@
    (T_Shader        :> Meta(<<"s","h","a","d","e","r">>, <<"t","x","t">>)) @@
    (T_Material      :> Meta(<<"m","a","t","e","r","i","a","l">>, <<"m","a","t">>)) @@
    (T_AnimationClip :> Meta(<<"a","n","i","m">>, <<"a","n","i","m">>)) @@
    (T_GameObject    :> Meta(<<"p","r","e","f","a","b">>, <<"j","s","o","n">>))

(***************************************************************************)
(* safe_name and the name registry                                         *)
(***************************************************************************)
\* def safe_name(name)
safe_name(name) ==
    IF name = None \/ name = <<>>
    THEN <<"u","n","n","a","m","e","d">>
    ELSE Strip([i \in 1..Len(name) |->
                    IF Allowed(name[i]) THEN name[i] ELSE "_"])

\* getattr(data, "m_Name", None) or type_name
NameOrTag(m_Name, type_name) ==
    IF m_Name = None \/ m_Name = <<>> THEN type_name ELSE m_Name

\* Deduplicate with the suffix taken from the counter before its increment
Deduplicate_OldCounter(seen, name) ==
    IF name \in DOMAIN seen
    THEN [seen |-> [seen EXCEPT ![name] = seen[name] + 1],
          name |-> name \o <<"_">> \o IntStr(seen[name])]
    ELSE [seen |-> seen @@ (name :> 0), name |-> name]

\* Deduplicate that computes the suffix and does not store the counter
Deduplicate_NoStore(seen, name) ==
    IF name \in DOMAIN seen
    THEN [seen |-> seen,
          name |-> name \o <<"_">> \o IntStr(seen[name] + 1)]
    ELSE [seen |-> seen @@ (name :> 0), name |-> name]

\* "Deduplicate names": the registry after the call and the name returned
Deduplicate(seen, name) ==
    IF name \in DOMAIN seen
    THEN LET n == seen[name] + 1
         IN  [seen |-> [seen EXCEPT ![name] = n],
              name |-> name \o <<"_">> \o IntStr(n)]
    ELSE [seen |-> seen @@ (name :> 0), name |-> name]

\* os.path.join(a, b) for a relative b
PathJoin(a, b) == a \o <<"/">> \o b

\* os.path.dirname(p)
RECURSIVE RStripSlash(_)
RStripSlash(s) ==
    IF s # <<>> /\ s[Len(s)] = "/"
    THEN RStripSlash(SubSeq(s, 1, Len(s) - 1))
    ELSE s

Dirname(p) ==
    LET slashes == {i \in 1..Len(p) : p[i] = "/"}
        i       == IF slashes = {} THEN 0
                   ELSE CHOOSE k \in slashes : \A j \in slashes : j <= k
        head    == SubSeq(p, 1, i)
    IN  IF head # <<>> /\ \E j \in 1..Len(head) : head[j] # "/"
        THEN RStripSlash(head)
        ELSE head

(***************************************************************************)
(* Exporters.  Each returns what it did to the file at abs_path:           *)
(* opened - the file was created or truncated, bytes - its length when the *)
(* exporter is left, wrote - the flag the pipeline reads afterwards.       *)
(***************************************************************************)
NoFile == [opened |-> FALSE, bytes |-> 0, wrote |-> FALSE]

Written(n, ok) == [opened |-> TRUE, bytes |-> n, wrote |-> ok]

\* Textures & Sprites: p.kind is "raise" (data.image raises), "none" (no
\* image), "image" (img.save writes p.png bytes of PNG) or "broken" (img.save
\* raises after it created the file, which is left with p.left bytes)
ExportImage(p) ==
    CASE p.kind = "image"  -> Written(p.png, TRUE)
      [] p.kind = "broken" -> Written(p.left, FALSE)
      [] OTHER             -> NoFile

\* Audio: the first sample that is not empty is written, the rest ignored.
\* clips are the byte lengths of data.samples in iteration order.
RECURSIVE FirstSample(_)
FirstSample(clips) ==
    IF clips = <<>> THEN NoFile
    ELSE IF Head(clips) > 0 THEN Written(Head(clips), TRUE)
    ELSE FirstSample(Tail(clips))

ExportAudio(p) ==
    IF p.kind = "samples" THEN FirstSample(p.clips) ELSE NoFile

\* script.encode("utf-8", errors="replace"): bytes per code point; a lone
\* surrogate is replaced by "?"
Utf8Width(c) ==
    CASE c = "ascii"     -> 1
      [] c = "latin"     -> 2
      [] c = "cjk"       -> 3
      [] c = "surrogate" -> 1

RECURSIVE Utf8Len(_)
Utf8Len(s) ==
    IF s = <<>> THEN 0 ELSE Utf8Width(Head(s)) + Utf8Len(Tail(s))

\* ExportText without the "if script:" guard
ExportText_NoGuard(p) ==
    CASE p.kind = "bytes" -> Written(p.len, TRUE)
      [] p.kind = "str"   -> Written(Utf8Len(p.chars), TRUE)
      [] OTHER            -> NoFile

\* Text Assets: p.kind is "raise", "none", "bytes" (p.len bytes) or "str"
\* (p.chars code points)
ExportText(p) ==
    CASE p.kind = "bytes" ->
            IF p.len > 0 THEN Written(p.len, TRUE) ELSE NoFile
      [] p.kind = "str" ->
            IF Len(p.chars) > 0 THEN Written(Utf8Len(p.chars), TRUE) ELSE NoFile
      [] OTHER -> NoFile

\* a dict key json.dump cannot serialise (default= does not apply to keys)
BadKey == <<"(tuple)">>

\* json.dump(d, f, indent=2) of a flat dict, chunk by chunk: the bytes written
\* for the items from position i on and whether the dump got to its end
RECURSIVE DumpItems(_, _)
DumpItems(items, i) ==
    IF i > Len(items) THEN [bytes |-> 2, ok |-> TRUE]          \* "\n}"
    ELSE IF items[i].key = BadKey THEN [bytes |-> 0, ok |-> FALSE]
    ELSE LET sep  == IF i = 1 THEN 0 ELSE 4                    \* ",\n  "
             item == 2 + Len(items[i].key) + 2 + Len(IntStr(items[i].val))
             rest == DumpItems(items, i + 1)
         IN  [bytes |-> sep + item + rest.bytes, ok |-> rest.ok]

JsonDump(items) ==
    IF items = <<>> THEN [bytes |-> 2, ok |-> TRUE]            \* "{}"
    ELSE LET r == DumpItems(items, 1)
         IN  [bytes |-> 1 + 3 + r.bytes, ok |-> r.ok]          \* "{" "\n  "

\* MonoBehaviour / GameObject and "everything else": p.kind is "raise"
\* (parse_as_dict raises) or "tree" (p.items, the dict)
ExportDump(p) ==
    IF p.kind = "tree"
    THEN LET r == JsonDump(p.items) IN Written(r.bytes, r.ok)
    ELSE NoFile

\* dict.get(key, default)
DictGet(d, key, default) == IF key \in DOMAIN d THEN d[key] ELSE default

\* the "v"/"f" lines of an OBJ file for a flat array taken three at a time,
\* each value printed after adding plus: the bytes written and whether the
\* loop got to its end (an array that is no multiple of 3 long raises
\* IndexError in its last group, before that line is written)
RECURSIVE ObjLines(_, _)
ObjLines(a, plus) ==
    IF a = <<>> THEN [bytes |-> 0, ok |-> TRUE]
    ELSE IF Len(a) < 3 THEN [bytes |-> 0, ok |-> FALSE]
    ELSE LET line == 2 + Len(IntStr(a[1] + plus)) + 1 + Len(IntStr(a[2] + plus))
                       + 1 + Len(IntStr(a[3] + plus)) + 1
             rest == ObjLines(SubSeq(a, 4, Len(a)), plus)
         IN  [bytes |-> line + rest.bytes, ok |-> rest.ok]

\* Mesh: p.kind is "raise" or "tree" (p.dict, the typetree)
ExportMesh(p, name) ==
    IF p.kind = "tree"
    THEN LET header  == 31 + Len(name) + 1
             verts   == ObjLines(DictGet(p.dict, "m_Vertices", <<>>), 0)
             indices == ObjLines(DictGet(p.dict, "m_IndexBuffer", <<>>), 1)
         IN  IF ~verts.ok THEN Written(header + verts.bytes, FALSE)
             ELSE Written(header + verts.bytes + indices.bytes, indices.ok)
    ELSE NoFile

\* the if/elif chain of extract_apk
Export(type_name, p, name) ==
    CASE type_name \in {T_Texture2D, T_Sprite}         -> ExportImage(p)
      [] type_name = T_AudioClip                       -> ExportAudio(p)
      [] type_name = T_TextAsset                       -> ExportText(p)
      [] type_name \in {T_MonoBehaviour, T_GameObject} -> ExportDump(p)
      [] type_name = T_Mesh                            -> ExportMesh(p, name)
      [] OTHER                                         -> ExportDump(p)

(***************************************************************************)
(* build_stats                                                             *)
(***************************************************************************)
\* by_type keyed by a["unityType"] in place of a["type"]
RECURSIVE ByType_UnityType(_, _)
ByType_UnityType(as, k) ==
    IF k = 0 THEN <<>>
    ELSE LET prev == ByType_UnityType(as, k - 1)
             t    == as[k].unityType
         IN  IF t \in DOMAIN prev
             THEN [prev EXCEPT ![t] = prev[t] + 1]
             ELSE prev @@ (t :> 1)

\* by_type after the loop over assets[1..k]
RECURSIVE ByType(_, _)
ByType(as, k) ==
    IF k = 0 THEN <<>>
    ELSE LET prev == ByType(as, k - 1)
             t    == as[k].type
         IN  IF t \in DOMAIN prev
             THEN [prev EXCEPT ![t] = prev[t] + 1]
             ELSE prev @@ (t :> 1)

\* total (bytes) after the loop over assets[1..k]
RECURSIVE TotalBytes(_, _)
TotalBytes(as, k) ==
    IF k = 0 THEN 0 ELSE TotalBytes(as, k - 1) + as[k].sizeBytes

\* set(a["bundle"] for a in assets), built one element at a time
RECURSIVE BundleSet(_, _)
BundleSet(as, k) ==
    IF k = 0 THEN {} ELSE BundleSet(as, k - 1) \cup {as[k].bundle}

build_stats(as) ==
    [total       |-> Len(as),
     byType      |-> ByType(as, Len(as)),
     totalBytes  |-> TotalBytes(as, Len(as)),
     bundleCount |-> Cardinality(BundleSet(as, Len(as)))]

(***************************************************************************)
(* What the source and the file system may hand to one run                 *)
(***************************************************************************)
\* sys.argv[2]
OUT_DIR == <<"o","u","t">>

\* obj.assets_file raises
Raises == <<"raise">>

\* str(e) of an exception that ends the run (the exceptions of os.makedirs
\* and of an attribute read carry a text)
ErrorText == <<"e","r","r","o","r">>

ImagePayloads ==
    {[kind |-> "raise"], [kind |-> "none"],
     [kind |-> "image", png |-> 8],
     [kind |-> "broken", left |-> 0]}

AudioPayloads ==
    {[kind |-> "raise"],
     [kind |-> "samples", clips |-> <<>>],
     [kind |-> "samples", clips |-> <<0>>],
     [kind |-> "samples", clips |-> <<0, 2, 3>>]}

TextPayloads ==
    {[kind |-> "raise"], [kind |-> "none"],
     [kind |-> "bytes", len |-> 0],
     [kind |-> "bytes", len |-> 3],
     [kind |-> "str", chars |-> <<>>],
     [kind |-> "str", chars |-> <<"ascii", "latin", "surrogate">>]}

DumpPayloads ==
    {[kind |-> "raise"],
     [kind |-> "tree", items |-> <<>>],
     [kind |-> "tree", items |-> <<[key |-> <<"k">>, val |-> 7]>>],
     [kind |-> "tree", items |-> <<[key |-> <<"k">>, val |-> 7],
                                   [key |-> BadKey, val |-> 1]>>]}

MeshPayloads ==
    {[kind |-> "raise"],
     [kind |-> "tree", dict |-> [m_Name |-> 0]],
     [kind |-> "tree", dict |-> [m_Vertices |-> <<1, 2, 3>>,
                                 m_IndexBuffer |-> <<0, 1, 9>>]],
     [kind |-> "tree", dict |-> [m_Vertices |-> <<1, 2, 3, 4>>,
                                 m_IndexBuffer |-> <<0, 1, 2>>]],
     [kind |-> "tree", dict |-> [m_Vertices |-> <<1, 2, 3>>,
                                 m_IndexBuffer |-> <<0, 1>>]]}

\* the payloads an object of type t may carry
Payloads(t) ==
    CASE t \in {T_Texture2D, T_Sprite} -> ImagePayloads
      [] t = T_AudioClip               -> AudioPayloads
      [] t = T_TextAsset               -> TextPayloads
      [] t = T_Mesh                    -> MeshPayloads
      [] OTHER                         -> DumpPayloads

\* the objects a source may yield: type tag, display name, payload, the
\* file-system call that fails for it (if any) and its assets_file.name
ObjectsOf(u) ==
    UNION {{[tag |-> t, m_Name |-> n, payload |-> p, fault |-> f, bundle |-> b] :
                n \in u.names, p \in Payloads(t), f \in u.faults, b \in u.bundles} :
           t \in u.tags \cap DOMAIN TYPE_META}

\* the runs of the naming specification: mesh objects under colliding names,
\* with a manifest path that has a directory part and one that has none
NameRuns ==
    [max     |-> MaxObjects,
     tags    |-> {T_Mesh, T_Camera},
     names   |-> {None, <<"H">>, <<"H","_","1">>, <<" ">>},
     faults  |-> {"none", "makedirs"},
     bundles |-> {<<"b","1">>},
     paths   |-> {<<"m">>, <<"d","/","m">>}]

\* the runs of the all-types specification: every type tag, unnamed objects,
\* every step of the loop body failing
TypeRuns ==
    [max     |-> MaxTypedObjects,
     tags    |-> DOMAIN TYPE_META \cup {T_Camera},
     names   |-> {None},
     faults  |-> {"none", "makedirs", "getsize"},
     bundles |-> {Raises, <<"b","1">>},
     paths   |-> {<<"m">>, <<"d","/","m">>}]

\* the runs of the statistics specification: three categories' worth of type
\* tags, objects from two bundles
StatRuns ==
    [max     |-> MaxStatObjects,
     tags    |-> {T_Texture2D, T_Sprite, T_AudioClip, T_Camera},
     names   |-> {None, <<"H">>},
     faults  |-> {"none"},
     bundles |-> {None, <<"b","1">>},
     paths   |-> {<<"m">>, <<"d","/","m">>}]

(***************************************************************************)
(* __main__ and extract_apk                                                *)
(***************************************************************************)
NoResult == [ok |-> FALSE, pending |-> TRUE]

\* the result of the except of __main__: str(e) and traceback.format_exc(),
\* the latter as the source lines of its frames
Failure(e, line) == [ok |-> FALSE, error |-> e, trace |-> <<206, line>>]

InitOf(u) ==
    /\ pc = "main"
    /\ manifest_path \in u.paths
    /\ assets = <<>>
    /\ seen_names = <<>>
    /\ fs = <<>>
    /\ visited = 0
    /\ last = "None"
    /\ resolved = <<>>
    /\ result = NoResult
    /\ manifests = <<>>
    /\ exit_code = -1

\* os.makedirs(out_dir) and UnityPy.load(apk_path) succeed
Load ==
    /\ pc = "main"
    /\ pc' = "loop"
    /\ UNCHANGED <<manifest_path, assets, seen_names, fs, visited, last,
                   resolved, result, manifests, exit_code>>

\* os.makedirs(out_dir) or UnityPy.load(apk_path) raises: the except of __main__
LoadFails ==
    /\ pc = "main"
    /\ result' = Failure(ErrorText, 58)
    /\ pc' = "manifest"
    /\ UNCHANGED <<manifest_path, assets, seen_names, fs, visited, last,
                   resolved, manifests, exit_code>>

\* obj.type.name raises: the statement stands before the try of the loop
\* body, so the exception leaves extract_apk and reaches the except of __main__
ReadTypeRaises(u) ==
    /\ pc = "loop"
    /\ visited < u.max
    /\ result' = Failure(ErrorText, 62)
    /\ pc' = "manifest"
    /\ UNCHANGED <<manifest_path, assets, seen_names, fs, visited, last,
                   resolved, manifests, exit_code>>

\* TYPE_META.get(type_name) is None: continue
Skip(u) ==
    /\ pc = "loop"
    /\ visited < u.max
    /\ \E t \in u.tags : t \notin DOMAIN TYPE_META
    /\ visited' = visited + 1
    /\ last' = "Skipped"
    /\ UNCHANGED <<pc, manifest_path, assets, seen_names, fs, resolved,
                   result, manifests, exit_code>>

\* obj.parse_as_object() raises: the except of the loop body, continue
ParseFails(u) ==
    /\ pc = "loop"
    /\ visited < u.max
    /\ \E t \in u.tags : t \in DOMAIN TYPE_META
    /\ visited' = visited + 1
    /\ last' = "ParseFailed"
    /\ UNCHANGED <<pc, manifest_path, assets, seen_names, fs, resolved,
                   result, manifests, exit_code>>

\* open(abs_path, "w"/"wb") ... close: the file holds n bytes afterwards
WriteFile(files, path, n) ==
    IF path \in DOMAIN files
    THEN [files EXCEPT ![path] = n]
    ELSE files @@ (path :> n)

\* os.path.getsize(path)
GetSize(files, path) == files[path]

\* getattr(obj.assets_file, "name", "unknown")
BundleOf(b) == IF b = None THEN <<"u","n","k","n","o","w","n">> ELSE b

\* the dict appended to assets
Entry(name, meta, type_name, rel_path, size, bundle) ==
    [name         |-> name,
     filename     |-> name \o <<".">> \o meta.ext,
     ext          |-> meta.ext,
     type         |-> meta.type,
     unityType    |-> type_name,
     relativePath |-> rel_path,
     sizeBytes    |-> size,
     bundle       |-> bundle]

\* the body of the loop from the parse on, for an object that parses
Process(u) ==
    /\ pc = "loop"
    /\ visited < u.max
    /\ \E obj \in ObjectsOf(u) :
         LET type_name == obj.tag
             meta      == TYPE_META[type_name]
             base      == safe_name(NameOrTag(obj.m_Name, type_name))
             d         == Deduplicate(seen_names, base)
             name      == d.name
             rel_path  == PathJoin(meta.type, name \o <<".">> \o meta.ext)
             abs_path  == PathJoin(OUT_DIR, rel_path)
             e         == IF obj.fault = "makedirs" THEN NoFile
                          ELSE Export(type_name, obj.payload, name)
             files     == IF e.opened THEN WriteFile(fs, abs_path, e.bytes)
                          ELSE fs
             appended  == /\ e.wrote
                          /\ obj.fault # "getsize"
                          /\ obj.bundle # Raises
         IN  /\ seen_names' = d.seen
             /\ resolved' = Append(resolved, [base |-> base, name |-> name])
             /\ fs' = files
             /\ assets' =
                  IF appended
                  THEN Append(assets,
                              Entry(name, meta, type_name, rel_path,
                                    GetSize(files, abs_path),
                                    BundleOf(obj.bundle)))
                  ELSE assets
             /\ last' = IF appended THEN "Exported" ELSE "Failed"
    /\ visited' = visited + 1
    /\ UNCHANGED <<pc, manifest_path, result, manifests, exit_code>>

\* env.objects is exhausted: return assets, build_stats, result
EndOfObjects ==
    /\ pc = "loop"
    /\ result' = [ok |-> TRUE, assets |-> assets, stats |-> build_stats(assets)]
    /\ pc' = "manifest"
    /\ UNCHANGED <<manifest_path, assets, seen_names, fs, visited, last,
                   resolved, manifests, exit_code>>

\* os.makedirs(os.path.dirname(manifest_path)) raises for the empty path a
\* bare file name has: nothing catches it, the interpreter exits with 1
ManifestDirFails ==
    /\ pc = "manifest"
    /\ Dirname(manifest_path) = <<>>
    /\ pc' = "crashed"
    /\ exit_code' = 1
    /\ UNCHANGED <<manifest_path, assets, seen_names, fs, visited, last,
                   resolved, result, manifests>>

\* json.dump(result, f) to manifest_path, then sys.exit
WriteManifest ==
    /\ pc = "manifest"
    /\ Dirname(manifest_path) # <<>>
    /\ manifests' = Append(manifests, result)
    /\ pc' = "exit"
    /\ exit_code' = IF result.ok THEN 0 ELSE 1
    /\ UNCHANGED <<manifest_path, assets, seen_names, fs, visited, last,
                   resolved, result>>

NextOf(u) ==
    \/ Load
    \/ LoadFails
    \/ ReadTypeRaises(u)
    \/ Skip(u)
    \/ ParseFails(u)
    \/ Process(u)
    \/ EndOfObjects
    \/ ManifestDirFails
    \/ WriteManifest

\* runs over mesh objects with colliding names
Spec == InitOf(NameRuns) /\ [][NextOf(NameRuns)]_vars

\* runs over objects of every type
SpecTypes == InitOf(TypeRuns) /\ [][NextOf(TypeRuns)]_vars

\* runs that feed build_stats
SpecStats == InitOf(StatRuns) /\ [][NextOf(StatRuns)]_vars

(***************************************************************************)
(* Properties                                                              *)
(***************************************************************************)
Finished == pc \in {"manifest", "exit", "crashed"}

\* the file an entry describes
FileOf(a) == PathJoin(OUT_DIR, a.relativePath)

\* C1: a failure raised while one object is processed, at whatever step
\* (the read of its type tag included), never ends the loop: once the source
\* is loaded the run returns normally and its result is ok:true with the
\* entries of the objects that exported.
C1_ObjectFailureNeverEndsRun ==
    /\ (Finished /\ ~result.ok) => result.trace = <<206, 58>>
    /\ (Finished /\ result.ok) =>
          (result.assets = assets /\ Len(assets) <= visited)

\* C2: no two entries of the result list that have the same category have
\* the same filename.
C2_FilenamesUniquePerCategory ==
    \A i, j \in DOMAIN assets :
        (i # j /\ assets[i].type = assets[j].type)
            => assets[i].filename # assets[j].filename

\* C3: in every state, every entry's sizeBytes is the byte length of the
\* file at its relativePath under the output directory.
C3_SizeIsFileLength ==
    \A i \in DOMAIN assets :
        /\ FileOf(assets[i]) \in DOMAIN fs
        /\ fs[FileOf(assets[i])] = assets[i].sizeBytes

\* C4: an object whose exporter fails leaves no file and no entry: every
\* file under the output directory is the relativePath of exactly one entry.
C4_EveryFileHasOneEntry ==
    \A path \in DOMAIN fs :
        Cardinality({i \in DOMAIN assets : FileOf(assets[i]) = path}) = 1

\* C5: when the process has ended exactly one manifest has been written; a
\* failure outside the loop gives ok:false with an error and a trace and exit
\* code 1; the exit code is 0 exactly when the manifest written has ok:true.
C5_OneManifestAndExitCode ==
    exit_code # -1 =>
        /\ Len(manifests) = 1
        /\ (exit_code = 0) <=> manifests[1].ok
        /\ exit_code \in {0, 1}
        /\ ~manifests[1].ok =>
              /\ manifests[1].error # <<>>
              /\ manifests[1].trace # <<>>

\* the sum of the values of a finite map
RECURSIVE SumValues(_)
SumValues(f) ==
    IF DOMAIN f = {} THEN 0
    ELSE LET k == CHOOSE x \in DOMAIN f : TRUE
         IN  f[k] + SumValues([x \in DOMAIN f \ {k} |-> f[x]])

\* C6: the stats of a result list: total is the number of entries, byType
\* counts the entries of each category and its values sum to total,
\* bundleCount is the number of distinct bundle values; for the empty list
\* total is 0, byType is empty and bundleCount is 0.
C6_StatsOfResult ==
    (Finished /\ result.ok) =>
        LET as == result.assets
            st == result.stats
        IN  /\ st.total = Len(as)
            /\ DOMAIN st.byType = {as[i].type : i \in DOMAIN as}
            /\ \A c \in DOMAIN st.byType :
                  st.byType[c] = Cardinality({i \in DOMAIN as : as[i].type = c})
            /\ SumValues(st.byType) = st.total
            /\ st.bundleCount = Cardinality({as[i].bundle : i \in DOMAIN as})
            /\ as = <<>> =>
                  (st.total = 0 /\ DOMAIN st.byType = {} /\ st.bundleCount = 0)

\* a run whose three entries come from two bundles and from two type tags of
\* one category plus another category
C6_Witness ==
    /\ Finished /\ result.ok
    /\ Len(result.assets) = 3
    /\ result.stats.bundleCount = 2
    /\ Cardinality(DOMAIN result.stats.byType) = 2
    /\ \E i, j \in DOMAIN result.assets :
          /\ result.assets[i].type = result.assets[j].type
          /\ result.assets[i].unityType # result.assets[j].unityType

\* C7: safe_name returns a string that is not empty and holds only
\* alphanumerics, '.', '_', '-' and space.
C7_SafeNameNonEmptyAllowed ==
    \A i \in DOMAIN resolved :
        /\ resolved[i].base # <<>>
        /\ \A k \in DOMAIN resolved[i].base : Allowed(resolved[i].base[k])

\* how often the base name of resolution i was resolved before it
Earlier(i) ==
    Cardinality({j \in 1..(i - 1) : resolved[j].base = resolved[i].base})

\* base, base_1, base_2, ...
Suffixed(base, k) == IF k = 0 THEN base ELSE base \o <<"_">> \o IntStr(k)

\* C8: the k resolutions of one base name return base, base_1, ...,
\* base_(k-1) in call order, pairwise distinct, and the counter of the base
\* name goes up by one with each repeat.
C8_SuffixesInCallOrder ==
    /\ \A i \in DOMAIN resolved :
          resolved[i].name = Suffixed(resolved[i].base, Earlier(i))
    /\ \A i, j \in DOMAIN resolved :
          (i # j /\ resolved[i].base = resolved[j].base)
              => resolved[i].name # resolved[j].name
    /\ DOMAIN seen_names = {resolved[i].base : i \in DOMAIN resolved}
    /\ \A b \in DOMAIN seen_names :
          seen_names[b] + 1 =
              Cardinality({i \in DOMAIN resolved : resolved[i].base = b})

\* one base name resolved three times
C8_Witness ==
    \E i \in DOMAIN resolved :
        /\ Earlier(i) = 2
        /\ resolved[i].name = resolved[i].base \o <<"_", "2">>

\* t is s after one insertion with counter 0 or one increment by one
OneMutation(s, t) ==
    LET new     == DOMAIN t \ DOMAIN s
        changed == {k \in DOMAIN s \cap DOMAIN t : t[k] # s[k]}
    IN  /\ DOMAIN s \subseteq DOMAIN t
        /\ Cardinality(new) + Cardinality(changed) = 1
        /\ \A k \in new : t[k] = 0
        /\ \A k \in changed : t[k] = s[k] + 1

\* C9: the registry is mutated exactly once by an object that parses,
\* whether its export succeeds or not; an object that is skipped or fails to
\* parse leaves it and the result list unchanged; it never loses a key and
\* no counter goes down.
C9_RegistryFrame ==
    [][ /\ DOMAIN seen_names \subseteq DOMAIN seen_names'
        /\ \A k \in DOMAIN seen_names : seen_names'[k] >= seen_names[k]
        /\ visited' = visited + 1 =>
              /\ last' \in {"Skipped", "ParseFailed"} =>
                    (seen_names' = seen_names /\ assets' = assets)
              /\ last' \in {"Failed", "Exported"} =>
                    OneMutation(seen_names, seen_names')
        /\ visited' = visited => seen_names' = seen_names ]_vars

\* an object whose export failed has taken a suffix all the same
C9_Witness ==
    /\ last = "Failed"
    /\ Len(assets) = 0
    /\ \E b \in DOMAIN seen_names : seen_names[b] = 1

\* C10: every entry of the result list has sizeBytes > 0, the size of the
\* file its exporter wrote; an export that writes no byte appends no entry.
C10_EntriesAreNotEmpty ==
    /\ \A i \in DOMAIN assets : assets[i].sizeBytes > 0
    /\ last = "Exported" =>
          /\ FileOf(assets[Len(assets)]) \in DOMAIN fs
          /\ fs[FileOf(assets[Len(assets)])] = assets[Len(assets)].sizeBytes
    /\ \A path \in DOMAIN fs :
          fs[path] = 0 => \A i \in DOMAIN assets : FileOf(assets[i]) # path

\* a mesh without vertex and index arrays was exported: its file holds the
\* two header lines alone
C10_Witness ==
    \E i \in DOMAIN assets :
        /\ assets[i].unityType = T_Mesh
        /\ assets[i].sizeBytes = 31 + Len(assets[i].name) + 1

====
